---- MODULE Spec2Model ----
(***************************************************************************)
(* The AI code reviewer service (service.py): the /review and              *)
(* /inline-suggestion handlers as state machines over request slots, the   *)
(* temporary-storage root they share, and the external calls they block in *)
(* (mkdtemp, the four git steps, rmtree, the rule and AI backends).        *)
(*                                                                         *)
(* Texts are sequences of tokens, so that concatenation (\o), prefixes and *)
(* str.strip() are computed.  An Optional value is None (<<>>) or Some(v)  *)
(* (<<v>>).  pc[r] names the external call request r is blocked in; the    *)
(* action of that name is the call's return together with the handler's    *)
(* code up to the next external call (or the response).                    *)
(***************************************************************************)
EXTENDS Integers, Sequences, FiniteSets, TLC

VARIABLES
    req,        \* r -> the request sent to slot r (Off: none)
    pc,         \* r -> the external call r is blocked in, "start", "done" or "off"
    tmp_dir,    \* r -> None, or Some(the directory mkdtemp returned to r)
    diff_text,  \* r -> None until assigned, then Some(text)
    exc,        \* r -> the exception propagating in r's handler (NoExc: none)
    rules,      \* r -> None, or Some(the mapping run_rule_checks returned)
    completion, \* r -> None, or Some(the first choice the AI backend returned)
    response,   \* r -> the HTTP responses r's handler produced, in order
    log,        \* r -> the external calls r issued, in order: [call, arg, out]
    disk,       \* directory name -> None (absent), or Some([holder, tree])
    rm_calls    \* r -> None, or Some([tree, trace]): the tree r's rmtree was
                \* given and the unlink and chmod calls it made, in order

vars ==
    <<req, pc, tmp_dir, diff_text, exc, rules, completion, response, log, disk, rm_calls>>

\* ---------------------------------------------------------------- bounds
\* Requests in flight at the same time.
NumReqs == 2
\* Findings the rule backend reports per category.
MaxFindings == 2
\* Characters of the content the AI backend returns for a suggestion.
MaxLen == 4
\* Entries of a workspace at the time it is released.
MaxEntries == 3

Reqs == 1..NumReqs
\* Names tempfile.mkdtemp can hand out: one per request is always enough.
Dirs == 1..NumReqs

\* ------------------------------------------------------------ values
None == <<>>
Some(v) == <<v>>

\* Python truthiness of an Optional[str] / Optional[int] field.
TruthyStr(o) == o # None /\ o[1] # <<>>
TruthyInt(o) == o # None /\ o[1] # 0

Categories == {"naming_convention", "complexity", "security"}

\* class ReviewRequest: every shape of diff, repo_url and pr_number.
ReviewRequest ==
    [endpoint : {"review"},
     diff : {None, Some(<<>>), Some(<<"d">>)},
     repo_url : {None, Some(<<>>), Some(<<"u">>)},
     pr_number : {None, Some(0), Some(7)},
     base : {<<"main">>}]

\* class InlineSuggestionRequest: the request of the spec's example.
InlineSuggestionRequest ==
    [endpoint : {"inline"},
     fileName : {<<"a.py">>},
     line : {<<"x=1">>},
     lineNumber : {1},
     fullFile : {<< <<"x=1">> >>}]

\* A slot no request was sent to.
Off == [endpoint |-> "off"]

\* The requests of the concurrent scenario: a remote review, a literal
\* review and an inline suggestion.
Workload ==
    {q \in ReviewRequest :
        \/ q.repo_url = Some(<<"u">>) /\ q.pr_number = Some(7) /\ q.diff = None
        \/ q.repo_url = None /\ q.pr_number = None /\ q.diff = Some(<<"d">>)}
    \cup InlineSuggestionRequest

\* ------------------------------------------------------------ exceptions
NoExc == [type |-> "none", msg |-> <<>>]
Exc(t, m) == [type |-> t, msg |-> m]

\* str(CalledProcessError) of a git step.
CpeMsg(step) == <<"Command 'git ", step, "' returned non-zero exit status 128.">>
CalledProcessError(step) == Exc("CalledProcessError", CpeMsg(step))
\* The git executable cannot be started (met at the first step).
GitMissing == Exc("FileNotFoundError", <<"[Errno 2] No such file or directory: 'git'">>)
\* What a removal that fails again after the chmod raises out of rmtree.
RmError == Exc("PermissionError", <<"[Errno 13] Permission denied">>)
\* mkdtemp cannot create a directory.
MkdtempError == Exc("OSError", <<"[Errno 28] No space left on device">>)

\* What the rule and AI review backends may raise: any kind of exception,
\* a CalledProcessError of a subprocess of their own included.
BackendErrors ==
    {Exc("RuntimeError", <<"backend failed">>),
     Exc("CalledProcessError", <<"Command 'pylint' returned non-zero exit status 2.">>)}

\* str(e).  For an HTTPException raised with keyword arguments it is the
\* empty string (no __str__, empty args) or "<status>: <detail>", by the
\* installed starlette; never the bare detail.
Str(e) ==
    IF e.type = "HTTPException"
    THEN {<<>>, <<"500: ">> \o e.msg}
    ELSE {e.msg}

HTTP500(detail) == [status |-> 500, detail |-> detail, body |-> <<>>]
HTTP200(body) == [status |-> 200, detail |-> <<>>, body |-> body]

GitMarker == "Git error: "

\* The except clauses of review(): the responses an exception turns into.
Translate(e) ==
    IF e.type = "CalledProcessError"
    THEN {HTTP500(<<GitMarker>> \o e.msg)}
    ELSE {HTTP500(s) : s \in Str(e)}

\* The except clause of inline_suggestion().
TranslateInline(e) == {HTTP500(s) : s \in Str(e)}

\* ------------------------------------------------------- diff source
\* A variant of IsRemote: only the repository URL is looked at.
IsRemoteByUrl(q) == TruthyStr(q.repo_url)

\* `if req.repo_url and req.pr_number`
IsRemote(q) == TruthyStr(q.repo_url) /\ TruthyInt(q.pr_number)

\* A variant of LiteralDiff: `str(req.diff)`, with no default for a missing diff.
LiteralDiffNoDefault(q) == IF q.diff # None THEN q.diff[1] ELSE <<"None">>

\* `req.diff or ""`
LiteralDiff(q) == IF TruthyStr(q.diff) THEN q.diff[1] ELSE <<>>

\* What `git diff` may print: a diff, or a diff holding a byte that is not
\* UTF-8.
BadByte == "\\xff"
DiffOutputs == {<<"pr">>, <<"pr", BadByte>>}
Decodable(b) == b # BadByte
\* diff_bytes.decode("utf-8", errors="ignore"): undecodable bytes are dropped.
decode(bytes) == SelectSeq(bytes, Decodable)

\* ------------------------------------------------------- the workspace
\* An entry of a workspace is writable ("rw"), read-only ("ro": its removal
\* fails until the read-only attribute is cleared) or cannot be removed at
\* all ("stuck").  What a successful clone leaves in the workspace:
CloneTrees == {<<"rw", "ro">>, <<"ro", "stuck", "rw">>}

\* The names of no existing directory.
FreeNames(dsk) == {d \in Dirs : dsk[d] = None}

\* A variant of MkdtempNames: one fixed directory name, whether or not it exists.
MkdtempFixedName(dsk) == {1}

\* The name mkdtemp returns: one of no existing directory (os.mkdir fails on
\* an existing name and mkdtemp draws again).  Names are opaque and every
\* statement below is the same under a renaming of the directories, so the
\* least free name stands for the one drawn.
MkdtempNames(dsk) == {d \in FreeNames(dsk) : \A e \in FreeNames(dsk) : d <= e}

\* A variant of on_rm_error: the attribute is cleared and the error is taken
\* as handled, the failed function is not called again.
OnRmErrorNoRetry(mode, i) ==
    [ok |-> TRUE,
     trace |-> <<[entry |-> i, op |-> "chmod", ok |-> TRUE]>>]

\* on_rm_error(func, path, exc_info): clear the read-only attribute, call the
\* failed function again; what the retry raises propagates.
on_rm_error(mode, i) ==
    [ok |-> mode = "ro",
     trace |-> <<[entry |-> i, op |-> "chmod", ok |-> TRUE],
                 [entry |-> i, op |-> "unlink", ok |-> mode = "ro"]>>]

\* shutil.rmtree(tmp_dir, onerror=on_rm_error) from entry i on: the entries
\* left behind, whether an exception left rmtree, and the calls made.
RECURSIVE RmFrom(_, _)
RmFrom(tree, i) ==
    IF i > Len(tree)
    THEN [left |-> <<>>, raised |-> FALSE, trace |-> <<>>]
    ELSE LET first == <<[entry |-> i, op |-> "unlink", ok |-> tree[i] = "rw"]>>
             retry == on_rm_error(tree[i], i)
         IN  IF tree[i] = "rw"
             THEN [RmFrom(tree, i + 1) EXCEPT !.trace = first \o @]
             ELSE IF retry.ok
                  THEN [RmFrom(tree, i + 1) EXCEPT !.trace = first \o retry.trace \o @]
                  ELSE [left |-> SubSeq(tree, i, Len(tree)),
                        raised |-> TRUE,
                        trace |-> first \o retry.trace]

rmtree(tree) == RmFrom(tree, 1)

\* ------------------------------------------------------- the backends
\* A variant of Get: a finding repeated at the head of the sequence is dropped.
GetDeduplicated(m, k) ==
    IF k \in DOMAIN m
    THEN IF Len(m[k]) > 1 /\ m[k][1] = m[k][2] THEN Tail(m[k]) ELSE m[k]
    ELSE <<>>

\* rules.get(key, [])
Get(m, k) == IF k \in DOMAIN m THEN m[k] ELSE <<>>

\* A variant of Assemble: the backend's mapping is passed through with the AI
\* fields added, so a category the backend omitted is missing.
AssemblePassThrough(m, ai_comments, ai_score) ==
    [k \in DOMAIN m \cup {"ai_comments", "ai_score"} |->
        IF k = "ai_comments" THEN ai_comments
        ELSE IF k = "ai_score" THEN ai_score
        ELSE m[k]]

\* ReviewResponse(naming_convention=rules.get(...), ..., ai_score=ai_score)
Assemble(m, ai_comments, ai_score) ==
    [naming_convention |-> Get(m, "naming_convention"),
     complexity |-> Get(m, "complexity"),
     security |-> Get(m, "security"),
     ai_comments |-> ai_comments,
     ai_score |-> ai_score]

\* Finding sequences of up to MaxFindings findings (duplicates included).
FindingSeqs == UNION {[1..n -> {"f1", "f2"}] : n \in 0..MaxFindings}

\* Every mapping over a subset of the categories.
AllRuleResults == UNION {[S -> FindingSeqs] : S \in SUBSET Categories}

\* What run_rule_checks returns in the request flows: the empty mapping and
\* a mapping with one category.
RuleResults == {[k \in S |-> <<"f1", "f1">>] : S \in {{}, {"security"}}}

\* What run_ai_review returns: (ai_comments, ai_score).
AiResults == {[comments |-> <<>>, score |-> 0], [comments |-> <<"c1">>, score |-> 7]}

\* ------------------------------------------------------- inline suggestion
IsSpace(c) == c \in {" ", "\n", "\t"}

RECURSIVE lstrip(_)
lstrip(t) == IF t # <<>> /\ IsSpace(Head(t)) THEN lstrip(Tail(t)) ELSE t

RECURSIVE rstrip(_)
rstrip(t) == IF t # <<>> /\ IsSpace(t[Len(t)]) THEN rstrip(SubSeq(t, 1, Len(t) - 1)) ELSE t

\* A variant of strip: whitespace is removed everywhere, inside the text too.
IsNotSpace(c) == ~IsSpace(c)
StripEverywhere(t) == SelectSeq(t, IsNotSpace)

\* str.strip()
strip(t) == rstrip(lstrip(t))

RECURSIVE Join(_)
\* "\n".join(lines)
Join(lines) ==
    IF lines = <<>> THEN <<>>
    ELSE IF Len(lines) = 1 THEN lines[1]
    ELSE lines[1] \o <<"\n">> \o Join(Tail(lines))

\* The prompt handed to the AI backend.
Prompt(q) ==
    <<"You are a senior Python code reviewer.\n", "Given the following file named '">>
    \o q.fileName \o <<"', review line ", ToString(q.lineNumber), ":\n", "    ">>
    \o q.line \o <<"\n", "Here is the complete file context:\n">>
    \o Join(q.fullFile) \o <<"\n\n">>
    \o <<"Suggest an improved version of the given line, optionally with a helpful inline code comment. Respond ONLY with the suggested code.">>

\* The first choice of a completion: None (no message attribute), Some(None)
\* (a message whose content is None) or Some(Some(text)).
Choices ==
    {None, Some(None), Some(Some(<<>>)), Some(Some(<<" ", "\n">>)),
     Some(Some(<<" ", "x", " ", " ", "y", "\n">>))}

\* Every content of up to MaxLen characters, blank ones included.
Contents == UNION {[1..n -> {" ", "\t", "x"}] : n \in 0..MaxLen}

\* Every first choice: no message, no content, or any of the contents.
AllChoices == {None, Some(None)} \cup {Some(Some(c)) : c \in Contents}

\* getattr(choice, "message", None), getattr(message, "content", None)
Content(choice) == IF choice = None THEN None ELSE choice[1]

\* `not content`
Falsy(content) == content = None \/ content[1] = <<>>

NoSuggestion == Exc("HTTPException", <<"No suggestion returned from AI model.">>)

\* Lines 130-136: the suggestion returned, or the exception raised.
suggestion(choice) ==
    IF Falsy(Content(choice))
    THEN [ok |-> FALSE, text |-> <<>>, exc |-> NoSuggestion]
    ELSE [ok |-> TRUE, text |-> strip(Content(choice)[1]), exc |-> NoExc]

\* What openai.chat.completions.create (or the import before it) may raise.
OpenaiErrors == {Exc("AuthenticationError", <<"No API key provided.">>)}
IndexError == Exc("IndexError", <<"list index out of range">>)

\* ------------------------------------------------------- handler steps
\* The log with its last call (if any) returned: out is "ok", "nonzero" (a
\* git step's non-zero exit) or "raised" (any other exception).
Returned(l, out) == IF l = <<>> THEN l ELSE [l EXCEPT ![Len(l)].out = out]

\* Request r's pending call returns `out`; r issues external call `call`
\* (with text argument arg) and blocks in it.
Goto(r, out, call, arg) ==
    /\ pc' = [pc EXCEPT ![r] = call]
    /\ log' = [log EXCEPT ![r] =
                 Append(Returned(@, out), [call |-> call, arg |-> arg, out |-> "pending"])]
    /\ UNCHANGED response

\* A variant of Respond: the handler answers without waiting for its
\* pending call.
RespondEarly(r, out, resp) ==
    /\ pc' = [pc EXCEPT ![r] = "done"]
    /\ response' = [response EXCEPT ![r] = Append(@, resp)]
    /\ UNCHANGED log

\* Request r's pending call returns `out` and the handler ends with resp.
Respond(r, out, resp) ==
    /\ pc' = [pc EXCEPT ![r] = "done"]
    /\ response' = [response EXCEPT ![r] = Append(@, resp)]
    /\ log' = [log EXCEPT ![r] = Returned(@, out)]

\* Exception e leaves the try block of review(): the except clauses answer.
Raise(r, out, e) ==
    /\ exc' = [exc EXCEPT ![r] = e]
    /\ \E resp \in Translate(e) : Respond(r, out, resp)

\* The same for inline_suggestion().
RaiseInline(r, out, e) ==
    /\ exc' = [exc EXCEPT ![r] = e]
    /\ \E resp \in TranslateInline(e) : Respond(r, out, resp)

\* A variant of Finally: no finally clause, the exception goes straight to the
\* except clauses.
NoFinally(r, out, e) == Raise(r, out, e)

\* An exception inside the inner try: the finally clause runs next.
Finally(r, out, e) ==
    /\ exc' = [exc EXCEPT ![r] = e]
    /\ Goto(r, out, "rmtree", <<>>)

\* review(), lines 46-50 and 77-78: the diff source is chosen.
ReviewStart(r) ==
    /\ pc[r] = "start"
    /\ req[r].endpoint = "review"
    /\ IF IsRemote(req[r])
       THEN /\ Goto(r, "ok", "mkdtemp", <<>>)
            /\ UNCHANGED diff_text
       ELSE /\ diff_text' = [diff_text EXCEPT ![r] = Some(LiteralDiff(req[r]))]
            /\ Goto(r, "ok", "rules", LiteralDiff(req[r]))
    /\ UNCHANGED <<req, rm_calls, tmp_dir, exc, rules, completion, disk>>

\* tempfile.mkdtemp(prefix="ai-review-"), line 50 (outside the inner try).
Mkdtemp(r) ==
    /\ pc[r] = "mkdtemp"
    /\ \/ \E d \in MkdtempNames(disk) :
            /\ disk' = [disk EXCEPT ![d] = Some([holder |-> r, tree |-> <<>>])]
            /\ tmp_dir' = [tmp_dir EXCEPT ![r] = Some(d)]
            /\ Goto(r, "ok", "clone", <<>>)
            /\ UNCHANGED exc
       \/ /\ Raise(r, "raised", MkdtempError)
          /\ UNCHANGED <<disk, tmp_dir>>
    /\ UNCHANGED <<req, rm_calls, diff_text, rules, completion>>

\* A variant of Clone: git runs under a process-wide lock, a clone does not
\* return while another request is in a git step.
CloneUnderLock(r) ==
    /\ pc[r] = "clone"
    /\ \A o \in Reqs \ {r} : pc[o] \notin {"clone", "fetch", "checkout", "diff"}
    /\ \/ \E t \in CloneTrees :
            /\ disk' = [disk EXCEPT ![tmp_dir[r][1]] = Some([holder |-> r, tree |-> t])]
            /\ Goto(r, "ok", "fetch", <<>>)
            /\ UNCHANGED exc
       \/ /\ Finally(r, "nonzero", CalledProcessError("clone"))
          /\ UNCHANGED disk
       \/ /\ Finally(r, "raised", GitMissing)
          /\ UNCHANGED disk
    /\ UNCHANGED <<req, rm_calls, tmp_dir, diff_text, rules, completion>>

\* git clone --depth 1, lines 53-56.
Clone(r) ==
    /\ pc[r] = "clone"
    /\ \/ \E t \in CloneTrees :
            /\ disk' = [disk EXCEPT ![tmp_dir[r][1]] = Some([holder |-> r, tree |-> t])]
            /\ Goto(r, "ok", "fetch", <<>>)
            /\ UNCHANGED exc
       \/ /\ Finally(r, "nonzero", CalledProcessError("clone"))
          /\ UNCHANGED disk
       \/ /\ Finally(r, "raised", GitMissing)
          /\ UNCHANGED disk
    /\ UNCHANGED <<req, rm_calls, tmp_dir, diff_text, rules, completion>>

\* A variant of Fetch: the exit status of the fetch is not checked.
FetchUnchecked(r) ==
    /\ pc[r] = "fetch"
    /\ \/ Goto(r, "ok", "checkout", <<>>)
       \/ Goto(r, "nonzero", "checkout", <<>>)
    /\ UNCHANGED <<req, rm_calls, tmp_dir, diff_text, exc, rules, completion, disk>>

\* git fetch origin pull/N/head:pr_branch, lines 58-61.
Fetch(r) ==
    /\ pc[r] = "fetch"
    /\ \/ /\ Goto(r, "ok", "checkout", <<>>)
          /\ UNCHANGED exc
       \/ Finally(r, "nonzero", CalledProcessError("fetch"))
    /\ UNCHANGED <<req, rm_calls, tmp_dir, diff_text, rules, completion, disk>>

\* git checkout pr_branch, lines 62-65.
Checkout(r) ==
    /\ pc[r] = "checkout"
    /\ \/ /\ Goto(r, "ok", "diff", <<>>)
          /\ UNCHANGED exc
       \/ Finally(r, "nonzero", CalledProcessError("checkout"))
    /\ UNCHANGED <<req, rm_calls, tmp_dir, diff_text, rules, completion, disk>>

\* A variant of GitDiff: the rule checks start while the workspace is still
\* there.
GitDiffKeepsWorkspace(r) ==
    /\ pc[r] = "diff"
    /\ \/ \E bytes \in DiffOutputs :
            /\ diff_text' = [diff_text EXCEPT ![r] = Some(decode(bytes))]
            /\ Goto(r, "ok", "rules", decode(bytes))
            /\ UNCHANGED exc
       \/ /\ Finally(r, "nonzero", CalledProcessError("diff"))
          /\ UNCHANGED diff_text
    /\ UNCHANGED <<req, rm_calls, tmp_dir, rules, completion, disk>>

\* git diff origin/base...HEAD and its decoding, lines 67-71.
GitDiff(r) ==
    /\ pc[r] = "diff"
    /\ \/ \E bytes \in DiffOutputs :
            /\ diff_text' = [diff_text EXCEPT ![r] = Some(decode(bytes))]
            /\ Goto(r, "ok", "rmtree", <<>>)
            /\ UNCHANGED exc
       \/ /\ Finally(r, "nonzero", CalledProcessError("diff"))
          /\ UNCHANGED diff_text
    /\ UNCHANGED <<req, rm_calls, tmp_dir, rules, completion, disk>>

\* The finally clause, lines 72-76: shutil.rmtree(tmp_dir, onerror=...).  An
\* exception leaving rmtree replaces the one that was propagating; else
\* that one propagates on, or the handler goes on to the rule checks.
Rmtree(r) ==
    /\ pc[r] = "rmtree"
    /\ LET d == tmp_dir[r][1]
           res == rmtree(disk[d][1].tree)
       IN  /\ disk' = [disk EXCEPT ![d] =
                          IF res.raised
                          THEN Some([holder |-> r, tree |-> res.left])
                          ELSE None]
           /\ IF res.raised
              THEN Raise(r, "raised", RmError)
              ELSE IF exc[r] # NoExc
                   THEN Raise(r, "ok", exc[r])
                   ELSE /\ Goto(r, "ok", "rules", diff_text[r][1])
                        /\ UNCHANGED exc
           /\ rm_calls' = [rm_calls EXCEPT ![r] =
                              Some([tree |-> disk[d][1].tree, trace |-> res.trace])]
    /\ UNCHANGED <<req, tmp_dir, diff_text, rules, completion>>

\* A variant of RunRuleChecks: a failure of the rule backend is swallowed and
\* the review goes on with no findings.
RunRuleChecksDegraded(r) ==
    /\ pc[r] = "rules"
    /\ \/ \E m \in RuleResults :
            /\ rules' = [rules EXCEPT ![r] = Some(m)]
            /\ Goto(r, "ok", "ai", diff_text[r][1])
       \/ /\ rules' = [rules EXCEPT ![r] = Some([k \in {} |-> <<>>])]
          /\ Goto(r, "raised", "ai", diff_text[r][1])
    /\ UNCHANGED <<req, rm_calls, tmp_dir, diff_text, exc, completion, disk>>

\* run_rule_checks(diff_text, cfg["rules"], ...), lines 81-87.
RunRuleChecks(r) ==
    /\ pc[r] = "rules"
    /\ \/ \E m \in RuleResults :
            /\ rules' = [rules EXCEPT ![r] = Some(m)]
            /\ Goto(r, "ok", "ai", diff_text[r][1])
            /\ UNCHANGED exc
       \/ \E e \in BackendErrors :
            /\ Raise(r, "raised", e)
            /\ UNCHANGED rules
    /\ UNCHANGED <<req, rm_calls, tmp_dir, diff_text, completion, disk>>

\* run_ai_review(diff_text, cfg["ai_review"]) and the response, lines 90-99.
RunAiReview(r) ==
    /\ pc[r] = "ai"
    /\ \/ \E a \in AiResults :
            /\ Respond(r, "ok", HTTP200(Assemble(rules[r][1], a.comments, a.score)))
            /\ UNCHANGED exc
       \/ \E e \in BackendErrors : Raise(r, "raised", e)
    /\ UNCHANGED <<req, rm_calls, tmp_dir, diff_text, rules, completion, disk>>

\* inline_suggestion(), lines 112-123: the prompt is built.
InlineStart(r) ==
    /\ pc[r] = "start"
    /\ req[r].endpoint = "inline"
    /\ Goto(r, "ok", "openai", Prompt(req[r]))
    /\ UNCHANGED <<req, rm_calls, tmp_dir, diff_text, exc, rules, completion, disk>>

\* openai.chat.completions.create and lines 130-138, with the first choices
\* the backend may return.
OpenaiCreateOf(r, choices) ==
    /\ pc[r] = "openai"
    /\ \/ /\ \E e \in OpenaiErrors : RaiseInline(r, "raised", e)
          /\ UNCHANGED completion
       \/ /\ RaiseInline(r, "ok", IndexError)
          /\ UNCHANGED completion
       \/ \E choice \in choices :
            LET out == suggestion(choice)
            IN  /\ completion' = [completion EXCEPT ![r] = Some(choice)]
                /\ IF out.ok
                   THEN /\ Respond(r, "ok", HTTP200([suggestedText |-> out.text]))
                        /\ UNCHANGED exc
                   ELSE RaiseInline(r, "ok", out.exc)
    /\ UNCHANGED <<req, rm_calls, tmp_dir, diff_text, rules, disk>>

OpenaiCreate(r) == OpenaiCreateOf(r, Choices)

\* The next step of request r's handler.
Step(r) ==
    \/ ReviewStart(r)
    \/ Mkdtemp(r)
    \/ Clone(r)
    \/ Fetch(r)
    \/ Checkout(r)
    \/ GitDiff(r)
    \/ Rmtree(r)
    \/ RunRuleChecks(r)
    \/ RunAiReview(r)
    \/ InlineStart(r)
    \/ OpenaiCreate(r)

Next == \E r \in Reqs : Step(r)

\* ------------------------------------------------------- specifications
\* The requests in `active` have arrived, each drawn from Inputs; nothing
\* has run and the temporary-storage root holds no workspace.
InitWith(active, Inputs) ==
    /\ req \in [Reqs -> Inputs \cup {Off}]
    /\ \A r \in Reqs : (req[r] = Off) <=> (r \notin active)
    /\ pc = [r \in Reqs |-> IF r \in active THEN "start" ELSE "off"]
    /\ tmp_dir = [r \in Reqs |-> None]
    /\ diff_text = [r \in Reqs |-> None]
    /\ exc = [r \in Reqs |-> NoExc]
    /\ rules = [r \in Reqs |-> None]
    /\ completion = [r \in Reqs |-> None]
    /\ response = [r \in Reqs |-> <<>>]
    /\ log = [r \in Reqs |-> <<>>]
    /\ disk = [d \in Dirs |-> None]
    /\ rm_calls = [r \in Reqs |-> None]

\* One request of any shape.
Init == InitWith({1}, ReviewRequest \cup InlineSuggestionRequest)

Spec == Init /\ [][Next]_vars

\* NumReqs requests in flight at the same time.
InitConcurrent == InitWith(Reqs, Workload)

SpecConcurrent == InitConcurrent /\ [][Next]_vars

\* Two requests in flight, in any two of the slots.
InitPair == \E active \in SUBSET Reqs :
    Cardinality(active) = 2 /\ InitWith(active, Workload)

\* Every external call returns and every handler is scheduled: each request
\* takes its next step when it has one.
SpecFair == InitPair /\ [][Next]_vars /\ \A r \in Reqs : WF_vars(Step(r))

\* Request 1 may stay blocked for ever in whichever call it is in; the calls
\* of the other requests return.
SpecOneBlocked ==
    InitPair /\ [][Next]_vars /\ \A r \in Reqs \ {1} : WF_vars(Step(r))

\* A literal review whose rule backend has returned: any mapping over a
\* subset of the categories.  The AI review and the assembly are to run.
LiteralRequest == CHOOSE q \in Workload : q.endpoint = "review" /\ ~IsRemote(q)

InitAssemble ==
    /\ req = [r \in Reqs |-> IF r = 1 THEN LiteralRequest ELSE Off]
    /\ pc = [r \in Reqs |-> IF r = 1 THEN "ai" ELSE "off"]
    /\ tmp_dir = [r \in Reqs |-> None]
    /\ diff_text = [r \in Reqs |-> IF r = 1 THEN Some(LiteralDiff(LiteralRequest)) ELSE None]
    /\ exc = [r \in Reqs |-> NoExc]
    /\ \E m \in AllRuleResults : rules = [r \in Reqs |-> IF r = 1 THEN Some(m) ELSE None]
    /\ completion = [r \in Reqs |-> None]
    /\ response = [r \in Reqs |-> <<>>]
    /\ log = [r \in Reqs |->
                IF r = 1
                THEN <<[call |-> "rules", arg |-> LiteralDiff(LiteralRequest), out |-> "ok"],
                       [call |-> "ai", arg |-> LiteralDiff(LiteralRequest), out |-> "pending"]>>
                ELSE <<>>]
    /\ disk = [d \in Dirs |-> None]
    /\ rm_calls = [r \in Reqs |-> None]

NextAssemble == \E r \in Reqs : RunAiReview(r)

SpecAssemble == InitAssemble /\ [][NextAssemble]_vars

\* A remote review about to release its workspace: the workspace holds any
\* entries, and either the git steps all succeeded or one of them failed
\* and its exception is propagating.
Modes == {"rw", "ro", "stuck"}
Trees == UNION {[1..n -> Modes] : n \in 0..MaxEntries}
RemoteRequest == CHOOSE q \in Workload : q.endpoint = "review" /\ IsRemote(q)
Ran(call, out) == [call |-> call, arg |-> <<>>, out |-> out]

PathsToRelease ==
    {[exc |-> NoExc, diff_text |-> Some(<<"pr">>),
      log |-> <<Ran("mkdtemp", "ok"), Ran("clone", "ok"), Ran("fetch", "ok"),
                Ran("checkout", "ok"), Ran("diff", "ok"), Ran("rmtree", "pending")>>],
     [exc |-> CalledProcessError("fetch"), diff_text |-> None,
      log |-> <<Ran("mkdtemp", "ok"), Ran("clone", "ok"), Ran("fetch", "nonzero"),
                Ran("rmtree", "pending")>>]}

InitRelease ==
    \E path \in PathsToRelease, tree \in Trees :
        /\ req = [r \in Reqs |-> IF r = 1 THEN RemoteRequest ELSE Off]
        /\ pc = [r \in Reqs |-> IF r = 1 THEN "rmtree" ELSE "off"]
        /\ tmp_dir = [r \in Reqs |-> IF r = 1 THEN Some(1) ELSE None]
        /\ diff_text = [r \in Reqs |-> IF r = 1 THEN path.diff_text ELSE None]
        /\ exc = [r \in Reqs |-> IF r = 1 THEN path.exc ELSE NoExc]
        /\ rules = [r \in Reqs |-> None]
        /\ completion = [r \in Reqs |-> None]
        /\ response = [r \in Reqs |-> <<>>]
        /\ log = [r \in Reqs |-> IF r = 1 THEN path.log ELSE <<>>]
        /\ disk = [d \in Dirs |->
                     IF d = 1 THEN Some([holder |-> 1, tree |-> tree]) ELSE None]
        /\ rm_calls = [r \in Reqs |-> None]

NextRelease == \E r \in Reqs : Rmtree(r)

SpecRelease == InitRelease /\ [][NextRelease]_vars

\* One inline suggestion whose backend may return any first choice.
InitSuggest == InitWith({1}, InlineSuggestionRequest)

NextSuggest == \E r \in Reqs : InlineStart(r) \/ OpenaiCreateOf(r, AllChoices)

SpecSuggest == InitSuggest /\ [][NextSuggest]_vars

\* ------------------------------------------------------- vocabulary
GitSteps == {"clone", "fetch", "checkout", "diff"}
Backends == {"rules", "ai"}

IsReview(r) == req[r].endpoint = "review"
IsInline(r) == req[r].endpoint = "inline"
Done(r) == pc[r] = "done"

\* Request r issued call c; the outcome of the call (for a call it issued).
Called(r, c) == \E i \in 1..Len(log[r]) : log[r][i].call = c
Out(r, c) == log[r][CHOOSE i \in 1..Len(log[r]) : log[r][i].call = c].out

\* A git step of r exited non-zero; r's workspace deletion failed; a backend
\* of r raised.
GitFailed(r) == \E c \in GitSteps : Called(r, c) /\ Out(r, c) = "nonzero"
RmFailed(r) == Called(r, "rmtree") /\ Out(r, "rmtree") = "raised"
BackendFailed(r) == \E c \in Backends : Called(r, c) /\ Out(r, c) = "raised"

\* r's workspace directory is on disk / r is in flight and holds a workspace.
WorkspaceOnDisk(r) ==
    /\ tmp_dir[r] # None
    /\ disk[tmp_dir[r][1]] # None
    /\ disk[tmp_dir[r][1]][1].holder = r
Holding(r) == tmp_dir[r] # None /\ pc[r] \in GitSteps \cup {"rmtree"}

\* The detail starts with the git-error marker.
HasGitMarker(detail) == detail # <<>> /\ detail[1] = GitMarker

\* ------------------------------------------------------- claims

\* C1 (as stated): once a remote /review request has responded, the
\* workspace directory it created is absent from disk, on every exit path.
C1_WorkspaceAbsentAfterResponse ==
    \A r \in Reqs : Done(r) /\ tmp_dir[r] # None => ~WorkspaceOnDisk(r)

\* C1 (amended): once a remote /review request has responded, its workspace
\* release has run, and the directory is absent from disk unless the removal
\* of one of its entries failed again after the read-only attribute was
\* cleared (that entry is the first one left).
C1_WorkspaceReleasedAfterResponse ==
    \A r \in Reqs :
        Done(r) /\ tmp_dir[r] # None =>
            /\ Called(r, "rmtree")
            /\ Out(r, "rmtree") # "pending"
            /\ \/ ~WorkspaceOnDisk(r)
               \/ /\ disk[tmp_dir[r][1]][1].tree # <<>>
                  /\ disk[tmp_dir[r][1]][1].tree[1] = "stuck"

\* A request whose fetch failed has responded and its workspace, which held a
\* read-only entry, is gone.
C1_Witness ==
    \E r \in Reqs :
        /\ Done(r)
        /\ Called(r, "fetch") /\ Out(r, "fetch") = "nonzero"
        /\ tmp_dir[r] # None
        /\ disk[tmp_dir[r][1]] = None

\* C2: when a git step fails and the workspace deletion that follows fails
\* too, the 500 response still reports the git failure (detail with the
\* git-error marker).
C2_CleanupFailureDoesNotMask ==
    \A r \in Reqs :
        Done(r) /\ GitFailed(r) /\ RmFailed(r) =>
            /\ response[r][1].status = 500
            /\ HasGitMarker(response[r][1].detail)

\* C3: when a git step exits non-zero, the request ends with a 500 whose
\* detail starts with "Git error:", and no workspace of it remains on disk.
C3_GitFailureReported ==
    \A r \in Reqs :
        Done(r) /\ GitFailed(r) =>
            /\ response[r][1].status = 500
            /\ HasGitMarker(response[r][1].detail)
            /\ ~WorkspaceOnDisk(r)

\* C4: when the first choice has no message, no content or an empty content,
\* /inline-suggestion ends with a 500 whose detail is exactly
\* "No suggestion returned from AI model.".
C4_NoSuggestionDetail ==
    \A r \in Reqs :
        Done(r) /\ completion[r] # None /\ Falsy(Content(completion[r][1])) =>
            /\ response[r][1].status = 500
            /\ response[r][1].detail = <<"No suggestion returned from AI model.">>

\* C5: no two in-flight requests hold the same workspace directory, and the
\* directory an in-flight request holds is on disk and its own: no other
\* request's acquire took it and no other request's release deleted it.
C5_WorkspacesDistinct ==
    \A r1 \in Reqs :
        Holding(r1) =>
            /\ WorkspaceOnDisk(r1)
            /\ \A r2 \in Reqs \ {r1} : Holding(r2) => tmp_dir[r2] # tmp_dir[r1]

\* Two requests hold a workspace at the same time.
C5_Witness ==
    \E r1, r2 \in Reqs : r1 # r2 /\ Holding(r1) /\ Holding(r2)

\* C6: a failure raised by the rule or AI review backend, whatever its kind,
\* ends the request with a 500 whose detail is the backend's own message,
\* unmodified (never with the "Git error:" prefix).
C6_BackendMessageUnmodified ==
    \A r \in Reqs :
        Done(r) /\ IsReview(r) /\ BackendFailed(r) =>
            /\ response[r][1].status = 500
            /\ response[r][1].detail = exc[r].msg

\* C7: a 200 is returned only if the diff resolution (when remote), the rule
\* backend and the AI backend all succeeded; a failure gives exactly one 500
\* with no results in it, no call is issued twice, and after a failed call
\* nothing but the workspace release is issued.
C7_AllOrNothing ==
    \A r \in Reqs :
        IsReview(r) =>
            /\ Len(response[r]) <= 1
            /\ Done(r) => Len(response[r]) = 1
            /\ \A i, j \in 1..Len(log[r]) : log[r][i].call = log[r][j].call => i = j
            /\ \A i, j \in 1..Len(log[r]) :
                 i < j /\ log[r][i].out \in {"nonzero", "raised"} => log[r][j].call = "rmtree"
            /\ \A i \in 1..Len(response[r]) :
                 /\ response[r][i].status \in {200, 500}
                 /\ response[r][i].status = 200 =>
                      /\ \A c \in Backends : Called(r, c) /\ Out(r, c) = "ok"
                      /\ IsRemote(req[r]) =>
                           \A c \in GitSteps \cup {"mkdtemp", "rmtree"} :
                              Called(r, c) /\ Out(r, c) = "ok"
                      /\ \A k \in 1..Len(log[r]) : log[r][k].out = "ok"
                 /\ (\E k \in 1..Len(log[r]) : log[r][k].out \in {"nonzero", "raised"}) =>
                      /\ response[r][i].status = 500
                      /\ response[r][i].body = <<>>

\* The rule backend of a request failed: it answered 500 and the AI backend
\* was never called.
C7_Witness ==
    \E r \in Reqs :
        /\ Done(r)
        /\ Called(r, "rules") /\ Out(r, "rules") = "raised"
        /\ ~Called(r, "ai")
        /\ response[r][1].status = 500

\* C8: with neither diff nor (repo_url and pr_number) set, the diff text
\* passed to both backends is the empty string, no workspace is created, no
\* git step runs, and the request returns 200 when both backends succeed.
C8_EmptyDiffDefault ==
    \A r \in Reqs :
        IsReview(r) /\ req[r].diff = None
        /\ (req[r].repo_url = None \/ req[r].pr_number = None) =>
            /\ tmp_dir[r] = None
            /\ \A i \in 1..Len(log[r]) :
                 log[r][i].call \in Backends /\ log[r][i].arg = <<>>
            /\ diff_text[r] \in {None, Some(<<>>)}
            /\ Done(r) /\ (\A c \in Backends : Called(r, c) /\ Out(r, c) = "ok") =>
                 response[r][1].status = 200

\* A request with no field set has returned 200 after both backends ran on
\* the empty diff.
C8_Witness ==
    \E r \in Reqs :
        /\ IsReview(r)
        /\ req[r].diff = None /\ req[r].repo_url = None /\ req[r].pr_number = None
        /\ Done(r)
        /\ response[r][1].status = 200
        /\ Called(r, "rules") /\ Called(r, "ai")

\* C9: for a rule-backend mapping over any subset of the categories, the
\* response has the backend's sequence unchanged for a present category and
\* the empty sequence for an absent one, and a returning AI backend always
\* gives a 200 (assembly does not raise).
C9_AssemblyStructural ==
    \A r \in Reqs :
        Done(r) /\ IsReview(r) /\ Called(r, "ai") /\ Out(r, "ai") = "ok" =>
            /\ response[r][1].status = 200
            /\ \A k \in Categories :
                 response[r][1].body[k] =
                    IF k \in DOMAIN rules[r][1] THEN rules[r][1][k] ELSE <<>>

\* A 200 assembled from a mapping that lacks a category and reports the same
\* finding twice in another.
C9_Witness ==
    \E r \in Reqs :
        /\ Done(r)
        /\ response[r][1].status = 200
        /\ "security" \notin DOMAIN rules[r][1]
        /\ "complexity" \in DOMAIN rules[r][1]
        /\ rules[r][1]["complexity"] = <<"f1", "f1">>
        /\ response[r][1].body.security = <<>>

\* C10: every 200 of /inline-suggestion carries a non-empty suggestedText.
C10_SuggestionNonEmpty ==
    \A r \in Reqs :
        Done(r) /\ IsInline(r) /\ response[r][1].status = 200 =>
            response[r][1].body.suggestedText # <<>>

\* out is what is left of content c after a blank prefix and a blank suffix
\* are cut off, and out itself neither starts nor ends with a blank.
Trimmed(out, c) ==
    \E i, j \in 0..Len(c) :
        /\ i + j <= Len(c)
        /\ out = SubSeq(c, i + 1, Len(c) - j)
        /\ \A k \in 1..i : IsSpace(c[k])
        /\ \A k \in (Len(c) - j + 1)..Len(c) : IsSpace(c[k])
        /\ out # <<>> => ~IsSpace(out[1]) /\ ~IsSpace(out[Len(out)])

\* C11: when the first choice has a non-empty content, the 200 response's
\* suggestedText is that content with leading and trailing whitespace
\* removed and nothing else changed (interior whitespace is kept).
C11_SuggestionTrimmed ==
    \A r \in Reqs :
        Done(r) /\ IsInline(r) /\ completion[r] # None
        /\ ~Falsy(Content(completion[r][1])) =>
            /\ response[r][1].status = 200
            /\ Trimmed(response[r][1].body.suggestedText, Content(completion[r][1])[1])

\* A content with blanks around and inside it was returned as a suggestion
\* that keeps the inner blank.
C11_Witness ==
    \E r \in Reqs :
        /\ Done(r)
        /\ completion[r] # None
        /\ Content(completion[r][1]) = Some(<<" ", "x", "\t", "x">>)
        /\ response[r][1].status = 200
        /\ response[r][1].body.suggestedText = <<"x", "\t", "x">>

\* The fields of a ReviewResponse.
ResponseFields ==
    {"naming_convention", "complexity", "security", "ai_comments", "ai_score"}

\* C13: two successful /review calls with the same literal diff have
\* responses of the same shape, with all five fields present, whatever the
\* backends returned to each.
C13_SameShape ==
    \A r1, r2 \in Reqs :
        /\ IsReview(r1) /\ IsReview(r2)
        /\ ~IsRemote(req[r1]) /\ req[r1] = req[r2]
        /\ Done(r1) /\ Done(r2)
        /\ response[r1][1].status = 200 /\ response[r2][1].status = 200
        => /\ DOMAIN response[r1][1].body = DOMAIN response[r2][1].body
           /\ DOMAIN response[r1][1].body = ResponseFields

\* Two calls with the same literal diff have succeeded on different results
\* of the rule backend.
C13_Witness ==
    \E r1, r2 \in Reqs :
        /\ r1 # r2
        /\ IsReview(r1) /\ IsReview(r2)
        /\ ~IsRemote(req[r1]) /\ req[r1] = req[r2]
        /\ Done(r1) /\ Done(r2)
        /\ response[r1][1].status = 200 /\ response[r2][1].status = 200
        /\ rules[r1] # rules[r2]

\* The git steps of r in the order they were issued.
GitCalls(r) == SelectSeq(log[r], LAMBDA e : e.call \in GitSteps)
GitOrder == <<"clone", "fetch", "checkout", "diff">>

\* C14: the git steps of a request are issued in the order clone, fetch,
\* checkout, diff, each only after the one before it succeeded; after a
\* failed step no git step is issued, and none is issued twice.
C14_GitStepsSequential ==
    \A r \in Reqs :
        /\ Len(GitCalls(r)) <= Len(GitOrder)
        /\ \A i \in 1..Len(GitCalls(r)) :
             /\ GitCalls(r)[i].call = GitOrder[i]
             /\ i < Len(GitCalls(r)) => GitCalls(r)[i].out = "ok"

\* The checkout of a request failed after clone and fetch: it has responded
\* and no diff was run.
C14_Witness ==
    \E r \in Reqs :
        /\ Done(r)
        /\ Called(r, "checkout") /\ Out(r, "checkout") = "nonzero"
        /\ Out(r, "clone") = "ok" /\ Out(r, "fetch") = "ok"
        /\ ~Called(r, "diff")

\* C18: a backend call of a remote request is in progress only after the
\* request's workspace release has run: the workspace is no longer held.
C18_BackendsAfterRelease ==
    \A r \in Reqs :
        IsReview(r) /\ IsRemote(req[r]) /\ pc[r] \in Backends =>
            /\ Called(r, "rmtree") /\ Out(r, "rmtree") = "ok"
            /\ ~WorkspaceOnDisk(r)
            /\ \A i, j \in 1..Len(log[r]) :
                 log[r][i].call \in Backends /\ log[r][j].call = "rmtree" => j < i

\* The rule backend of a remote request is running: the request was given
\* a workspace, and it is gone.
C18_Witness ==
    \E r \in Reqs :
        /\ pc[r] = "rules"
        /\ tmp_dir[r] # None
        /\ disk[tmp_dir[r][1]] = None
        /\ req[r].repo_url = Some(<<"u">>)

\* The calls of the remote path.
RemoteCalls == GitSteps \cup {"mkdtemp", "rmtree"}

\* C19: the remote path is taken exactly when repo_url is a non-empty string
\* and pr_number a non-zero integer, and then the literal diff is ignored;
\* otherwise there is no workspace and no git step, and the diff text is
\* the literal diff, or the empty string when diff is missing.
C19_DiffSource ==
    \A r \in Reqs :
        IsReview(r) /\ pc[r] # "start" =>
            LET q == req[r]
                remote == /\ q.repo_url # None /\ q.repo_url[1] # <<>>
                          /\ q.pr_number # None /\ q.pr_number[1] # 0
                literal == IF q.diff = None THEN <<>> ELSE q.diff[1]
            IN  /\ remote <=> Called(r, "mkdtemp")
                /\ remote =>
                     \A i \in 1..Len(log[r]) :
                        log[r][i].call \in Backends => log[r][i].arg = <<"pr">>
                /\ ~remote =>
                     /\ tmp_dir[r] = None
                     /\ diff_text[r] = Some(literal)
                     /\ \A i \in 1..Len(log[r]) :
                          /\ log[r][i].call \notin RemoteCalls
                          /\ log[r][i].call \in Backends => log[r][i].arg = literal

\* A request with repo_url, pr_number and a literal diff has succeeded on
\* the diff of the pull request.
C19_Witness ==
    \E r \in Reqs :
        /\ IsReview(r)
        /\ req[r].repo_url = Some(<<"u">>) /\ req[r].pr_number = Some(7)
        /\ req[r].diff = Some(<<"d">>)
        /\ Done(r) /\ response[r][1].status = 200
        /\ diff_text[r] = Some(<<"pr">>)

\* The calls of kind op that r's rmtree made on entry i, in order.
Ops(r, i, op) ==
    SelectSeq(rm_calls[r][1].trace, LAMBDA e : e.entry = i /\ e.op = op)

\* r's rmtree has returned or raised.
Released(r) == rm_calls[r] # None

\* The retry of entry i's removal failed as well.
RetryFailed(r, i) == Len(Ops(r, i, "unlink")) = 2 /\ ~Ops(r, i, "unlink")[2].ok

\* C15: during release, each entry whose removal fails has its read-only
\* attribute cleared once and its removal retried exactly once; an entry
\* whose removal succeeds is not touched again; after a successful retry
\* the deletion goes on with the next entry; the release fails exactly
\* when a retry failed, and otherwise the directory is removed.
C15_RetryOnce ==
    \A r \in Reqs :
        Released(r) =>
            LET tree == rm_calls[r][1].tree
                raised == Out(r, "rmtree") = "raised"
            IN  /\ \A i \in 1..Len(tree) :
                     LET unlinks == Ops(r, i, "unlink")
                         chmods == Ops(r, i, "chmod")
                     IN  /\ unlinks # <<>> /\ ~unlinks[1].ok =>
                              Len(chmods) = 1 /\ Len(unlinks) = 2
                         /\ unlinks # <<>> /\ unlinks[1].ok =>
                              Len(chmods) = 0 /\ Len(unlinks) = 1
                         /\ unlinks # <<>> /\ unlinks[Len(unlinks)].ok /\ i < Len(tree) =>
                              Ops(r, i + 1, "unlink") # <<>>
                         /\ unlinks = <<>> => \E j \in 1..(i - 1) : RetryFailed(r, j)
                /\ raised <=> \E i \in 1..Len(tree) : RetryFailed(r, i)
                /\ ~raised => disk[tmp_dir[r][1]] = None

\* A release met a read-only entry between two writable ones, retried it
\* with success and removed the directory.
C15_Witness ==
    \E r \in Reqs :
        /\ Released(r)
        /\ rm_calls[r][1].tree = <<"rw", "ro", "rw">>
        /\ Len(Ops(r, 2, "unlink")) = 2
        /\ Out(r, "rmtree") = "ok"
        /\ disk[tmp_dir[r][1]] = None

\* C16: when an entry cannot be removed even after the retry, the release
\* still removes every other removable entry: what a failed release leaves in
\* the workspace are only entries that cannot be removed.
C16_BestEffortComplete ==
    \A r \in Reqs :
        Released(r) /\ Out(r, "rmtree") = "raised" =>
            LET left == disk[tmp_dir[r][1]][1].tree
            IN  \A i \in 1..Len(left) : left[i] = "stuck"

\* C12: no request holds a process-wide lock while it is blocked in a git
\* step or a backend call: request 1 may block for ever in any of its calls,
\* and every other request in flight, review or inline suggestion, whose own
\* calls return, still responds.
C12_SlowRequestStallsNoOther ==
    \A r \in Reqs \ {1} : (pc[r] # "off") ~> Done(r)

\* Request 1 is still in its clone, and another remote review has run its
\* git steps and answered 200.
C12_Witness ==
    \E r \in Reqs \ {1} :
        /\ pc[1] = "clone"
        /\ IsReview(r) /\ IsRemote(req[r])
        /\ Done(r) /\ response[r][1].status = 200

\* No call of r is pending.
NothingPending(r) == \A i \in 1..Len(log[r]) : log[r][i].out # "pending"

\* C17: when every git step and backend call returns, every request
\* produces a response, never a second one, and when it has responded none
\* of its git steps, backend calls or workspace deletions is pending.
C17_ExactlyOneResponse ==
    /\ \A r \in Reqs : (pc[r] # "off") ~> Done(r)
    /\ [](\A r \in Reqs :
            /\ Len(response[r]) <= 1
            /\ Done(r) <=> Len(response[r]) = 1
            /\ Done(r) => response[r][1].status \in {200, 500} /\ NothingPending(r))

\* Two requests in flight have both responded, one of them a remote review
\* whose fetch failed and whose workspace deletion has returned.
C17_Witness ==
    \E r1, r2 \in Reqs :
        /\ r1 # r2 /\ Done(r1) /\ Done(r2)
        /\ Called(r1, "fetch") /\ Out(r1, "fetch") = "nonzero"
        /\ Called(r1, "rmtree") /\ Out(r1, "rmtree") = "ok"
        /\ response[r1][1].status = 500
        /\ IsInline(r2)

====
